---- MODULE Spec2Model ----
(***************************************************************************)
(* Signup form: the form controller (components/SignupForm.tsx), its       *)
(* validation, and the key-value persistence helpers (StorageManager).     *)
(*                                                                         *)
(* Representation of values                                                *)
(*   text            a sequence of one-character strings                   *)
(*   Date            [year, month, day]   (local calendar fields)          *)
(*   null            NullDate                                              *)
(*   ISO timestamp   [iso |-> <<year, month, day>>]   (a string, no Date)  *)
(*   date-only text  [ymd |-> <<year, month, day>>]                        *)
(*   a stored key    AbsentKey, [obj |-> o] (JSON text of an object),      *)
(*                   [arr |-> s] (JSON text of an array), Malformed        *)
(***************************************************************************)
EXTENDS Integers, Sequences, FiniteSets, TLC

(***************************************************************************)
(* Bounds of the model                                                     *)
(***************************************************************************)
MaxPwLen == 9
MaxBioLen == 11
MaxNameLen == 3
MaxEmailLen == 5
MaxAge == 14
MaxTicks == 1
MaxEdits == 1
MaxForms == 2
MaxBatch == 2

\* the year of the first clock value
FirstYear == 2026

(***************************************************************************)
(* Characters                                                              *)
(***************************************************************************)
Lower == {"a", "b", "c"}
Upper == {"A"}
Digit == {"1"}
WhiteSpace == {" "}
LineTerminators == {"\n"}

\* String.prototype.trim
RECURSIVE TrimLeft(_)
TrimLeft(s) ==
  IF s # <<>> /\ Head(s) \in WhiteSpace THEN TrimLeft(Tail(s)) ELSE s

RECURSIVE TrimRight(_)
TrimRight(s) ==
  IF s # <<>> /\ s[Len(s)] \in WhiteSpace
    THEN TrimRight(SubSeq(s, 1, Len(s) - 1))
    ELSE s

trim(s) == TrimRight(TrimLeft(s))

(***************************************************************************)
(* Dates                                                                   *)
(***************************************************************************)
NullDate == [isNull |-> TRUE]

getFullYear(d) == d.year

toISOString(d) == [iso |-> <<d.year, d.month, d.day>>]

\* toISOString().split('T')[0]
toDateOnly(d) == [ymd |-> toISOString(d).iso]

\* a faulty variant: only the year and the month of the string are read
newDate_FirstOfMonth(s) == [year |-> s.iso[1], month |-> s.iso[2], day |-> 1]

\* new Date(isoString)
newDate(s) == [year |-> s.iso[1], month |-> s.iso[2], day |-> s.iso[3]]

(***************************************************************************)
(* The draft form record                                                   *)
(***************************************************************************)
FieldNames ==
  {"fullName", "email", "password", "confirmPassword", "bio", "country",
   "gender", "acceptTerms", "hobbies", "dateOfBirth"}

DefaultFormData ==
  [fullName |-> <<>>, email |-> <<>>, password |-> <<>>,
   confirmPassword |-> <<>>, bio |-> <<>>, country |-> "", gender |-> "",
   acceptTerms |-> FALSE, hobbies |-> <<>>, dateOfBirth |-> NullDate]

NoErrors == [f \in {} |-> ""]

NoError == ""

(***************************************************************************)
(* Validation                                                              *)
(***************************************************************************)
MsgFullNameRequired == "Full name is required"
MsgFullNameShort == "Full name must be at least 2 characters"
MsgEmailRequired == "Email is required"
MsgEmailInvalid == "Please enter a valid email address"
MsgPasswordRequired == "Password is required"
MsgPasswordShort == "Password must be at least 8 characters"
MsgPasswordWeak == "Password must contain at least one uppercase letter, one lowercase letter, and one number"
MsgConfirmRequired == "Please confirm your password"
MsgConfirmMismatch == "Passwords do not match"
MsgBioRequired == "Bio is required"
MsgBioShort == "Bio must be at least 10 characters"
MsgCountryRequired == "Please select a country"
MsgGenderRequired == "Please select a gender"
MsgTermsRequired == "You must accept the terms and conditions"
MsgDobRequired == "Date of birth is required"
MsgDobTooYoung == "You must be at least 13 years old"

\* [^\s@]+ over the positions a..b of s
NoSpaceNoAt(s, a, b) ==
  /\ a <= b
  /\ \A k \in a..b : s[k] \notin WhiteSpace /\ s[k] # "@"

\* /^[^\s@]+@[^\s@]+\.[^\s@]+$/.test(email)
validateEmail(email) ==
  \E i \in 1..Len(email) : \E j \in 1..Len(email) :
    /\ email[i] = "@"
    /\ email[j] = "."
    /\ NoSpaceNoAt(email, 1, i - 1)
    /\ NoSpaceNoAt(email, i + 1, j - 1)
    /\ NoSpaceNoAt(email, j + 1, Len(email))

\* the lookahead (?=.*[class]) tried at position p: '.' does not cross a
\* line terminator
LookAhead(s, p, class) ==
  \E k \in p..Len(s) :
    /\ s[k] \in class
    /\ \A m \in p..(k - 1) : s[m] \notin LineTerminators

\* /(?=.*[a-z])(?=.*[A-Z])(?=.*\d)/.test(password)
StrongPassword(password) ==
  \E p \in 1..(Len(password) + 1) :
    /\ LookAhead(password, p, Lower)
    /\ LookAhead(password, p, Upper)
    /\ LookAhead(password, p, Digit)

\* a faulty variant: the length is taken of the untrimmed text
fullNameError_Untrimmed(d) ==
  IF trim(d.fullName) = <<>> THEN MsgFullNameRequired
  ELSE IF Len(d.fullName) < 2 THEN MsgFullNameShort
  ELSE NoError

fullNameError(d) ==
  IF trim(d.fullName) = <<>> THEN MsgFullNameRequired
  ELSE IF Len(trim(d.fullName)) < 2 THEN MsgFullNameShort
  ELSE NoError

emailError(d) ==
  IF trim(d.email) = <<>> THEN MsgEmailRequired
  ELSE IF ~validateEmail(d.email) THEN MsgEmailInvalid
  ELSE NoError

\* a faulty variant: the strength check runs before the length check
passwordError_StrengthFirst(d) ==
  IF d.password = <<>> THEN MsgPasswordRequired
  ELSE IF ~StrongPassword(d.password) THEN MsgPasswordWeak
  ELSE IF Len(d.password) < 8 THEN MsgPasswordShort
  ELSE NoError

passwordError(d) ==
  IF d.password = <<>> THEN MsgPasswordRequired
  ELSE IF Len(d.password) < 8 THEN MsgPasswordShort
  ELSE IF ~StrongPassword(d.password) THEN MsgPasswordWeak
  ELSE NoError

confirmPasswordError(d) ==
  IF d.confirmPassword = <<>> THEN MsgConfirmRequired
  ELSE IF d.password # d.confirmPassword THEN MsgConfirmMismatch
  ELSE NoError

bioError(d) ==
  IF trim(d.bio) = <<>> THEN MsgBioRequired
  ELSE IF Len(trim(d.bio)) < 10 THEN MsgBioShort
  ELSE NoError

countryError(d) == IF d.country = "" THEN MsgCountryRequired ELSE NoError

genderError(d) == IF d.gender = "" THEN MsgGenderRequired ELSE NoError

acceptTermsError(d) == IF ~d.acceptTerms THEN MsgTermsRequired ELSE NoError

\* a faulty variant: the age counts a year only once the birthday has passed
dateOfBirthError_CalendarAge(d, today) ==
  IF d.dateOfBirth = NullDate THEN MsgDobRequired
  ELSE LET years == getFullYear(today) - getFullYear(d.dateOfBirth)
           before == \/ today.month < d.dateOfBirth.month
                     \/ /\ today.month = d.dateOfBirth.month
                        /\ today.day < d.dateOfBirth.day
           age == IF before THEN years - 1 ELSE years
       IN  IF age < 13 THEN MsgDobTooYoung ELSE NoError

dateOfBirthError(d, today) ==
  IF d.dateOfBirth = NullDate THEN MsgDobRequired
  ELSE LET age == getFullYear(today) - getFullYear(d.dateOfBirth)
       IN  IF age < 13 THEN MsgDobTooYoung ELSE NoError

\* the message validateForm assigns to newErrors[f], NoError when it
\* assigns none
FieldError(f, d, today) ==
  CASE f = "fullName" -> fullNameError(d)
    [] f = "email" -> emailError(d)
    [] f = "password" -> passwordError(d)
    [] f = "confirmPassword" -> confirmPasswordError(d)
    [] f = "bio" -> bioError(d)
    [] f = "country" -> countryError(d)
    [] f = "gender" -> genderError(d)
    [] f = "acceptTerms" -> acceptTermsError(d)
    [] f = "dateOfBirth" -> dateOfBirthError(d, today)
    [] OTHER -> NoError

\* the object newErrors at the end of validateForm
newErrors(d, today) ==
  [f \in {g \in FieldNames : FieldError(g, d, today) # NoError}
     |-> FieldError(f, d, today)]

\* Object.keys(newErrors).length === 0
validateForm(d, today) == DOMAIN newErrors(d, today) = {}

(***************************************************************************)
(* JSON and the key-value store (AsyncStorage)                             *)
(***************************************************************************)
AbsentKey == [absent |-> TRUE]

Malformed == [malformed |-> TRUE]

IsDate(v) == DOMAIN v = {"year", "month", "day"}

\* JSON.stringify of an object: a Date value is written by Date.toJSON as
\* its ISO timestamp, null stays null
JSONstringify(o) ==
  [obj |-> [o EXCEPT !.dateOfBirth =
                       IF IsDate(@) THEN toISOString(@) ELSE @]]

\* JSON.parse throws on this text
ParseThrows(text) == "obj" \notin DOMAIN text /\ "arr" \notin DOMAIN text

\* JSON.parse of the text of an object
JSONparse(text) == text.obj

FORM_DATA_KEY == "signupFormData"

SUBMITTED_FORMS_KEY == "submittedForms"

\* no key is stored
EmptyStore == [k \in {FORM_DATA_KEY, SUBMITTED_FORMS_KEY} |-> AbsentKey]

(***************************************************************************)
(* State                                                                   *)
(***************************************************************************)
\* the callers of the StorageManager
Callers == {"c1", "c2"}

\* no call in progress
Idle == [op |-> "idle"]

\* no call made yet, or the call is in progress
NoResult == [op |-> "idle", status |-> "none"]

VARIABLES
  formData,     \* useState: the in-memory draft
  errors,       \* useState: field name -> message
  toast,        \* useState: [visible, message, type]
  store,        \* AsyncStorage: key -> stored text or AbsentKey
  tick,         \* the device clock: the position reached in Clock
  pending,      \* AsyncStorage calls of the component awaiting completion
  alerts,       \* Alert dialogs, the first one displayed
  edits,        \* number of field updates made so far
  calls,        \* StorageManager: the call each caller has in progress
  ret,          \* StorageManager: the outcome of each caller's last call
  timer,        \* Toast: the auto-hide timer of the displayed notification
  dir,          \* FileSystem: the image directory
  batch         \* ImageStorage: the call in progress and its outcome

vars ==
  <<formData, errors, toast, store, tick, pending, alerts, edits, calls, ret,
    timer, dir, batch>>

\* the state of the StorageManager's callers
smVars == <<calls, ret>>

\* the state of the signup screen
formVars == <<formData, errors, toast, timer, tick, pending, alerts, edits>>

\* the state of the ImageStorage and its directory
imVars == <<dir, batch>>

\* ${FileSystem.documentDirectory}captured_images/
IMAGE_DIRECTORY == "documentDirectory/captured_images/"

\* where the camera leaves a captured picture
CacheDirectory == "cacheDirectory/Camera/"

\* `${directory}${name}`
Path(directory, name) == <<directory, name>>

\* the file names of the captured pictures, as readDirectoryAsync lists them
ImageFileNames == <<"p1.jpg", "p2.jpg">>

\* no file under this name
NoFile == <<>>

\* the image directory does not exist yet
NoDirectory == [exists |-> FALSE, files |-> [n \in {"p1.jpg", "p2.jpg"} |-> NoFile]]

\* no ImageStorage call made yet
NoBatch ==
  [op |-> "idle", phase |-> "idle", images |-> <<>>, items |-> <<>>,
   out |-> [status |-> "none"], before |-> NoDirectory]

MsgSuccess == "Successfully registered! Data saved to storage."
MsgFailed == "Registration failed. Please try again."
MsgFixErrors == "Please fix the errors in the form"
MsgCleared == "Storage cleared successfully"
MsgFound == "Previous form data found in storage"
MsgLoaded == "Form data loaded from storage"
MsgNotFound == "No stored data found"
MsgReset == "Form reset successfully"

NoToast == [visible |-> FALSE, message |-> "", type |-> "success"]

\* the Toast arms its timer in the effect that runs when visible changes:
\* a notification shown over a visible one inherits the running timer
showToast(message, type) ==
  /\ toast' = [visible |-> TRUE, message |-> message, type |-> type]
  /\ timer' = IF toast.visible THEN "inherited" ELSE "armed"

\* formattedData of handleSubmit
FormattedData(d, today) ==
  [fullName |-> d.fullName, email |-> d.email, password |-> d.password,
   confirmPassword |-> d.confirmPassword, bio |-> d.bio,
   country |-> d.country, gender |-> d.gender,
   acceptTerms |-> d.acceptTerms, hobbies |-> d.hobbies,
   dateOfBirth |-> IF d.dateOfBirth = NullDate
                     THEN [undefined |-> TRUE]
                     ELSE toDateOnly(d.dateOfBirth),
   submittedAt |-> toISOString(today)]

\* storageData of saveFormDataToStorage
StorageData(d) ==
  [d EXCEPT !.dateOfBirth = IF @ # NullDate THEN toISOString(@) ELSE NullDate]

(***************************************************************************)
(* Inputs of the form widgets (components/FormInput.tsx)                   *)
(***************************************************************************)
\* the options picked in the dropdown, the radio group and the checkbox
\* group, out of countryOptions, genderOptions and hobbyOptions
PickedCountries == {"us"}

PickedGenders == {"male"}

PickedHobbies == {"reading"}

RECURSIVE Letters(_)
Letters(n) == IF n = 0 THEN <<>> ELSE Append(Letters(n - 1), "a")

GoodPassword == <<"a", "b", "c", "A", "A", "1", "1", "a">>

GoodEmail == <<"a", "@", "b", ".", "c">>

\* the dates of the clock, in order
Clock ==
  [i \in 1..(MaxTicks + 1) |->
     [year |-> FirstYear + (i \div 2),
      month |-> IF i % 2 = 1 THEN 12 ELSE 1,
      day |-> IF i % 2 = 1 THEN 31 ELSE 1]]

ClockDates == {Clock[i] : i \in DOMAIN Clock}

\* the texts typed into a text field of the form
TypedTexts(name) ==
  CASE name = "fullName" -> {Letters(2)}
    [] name = "email" -> {GoodEmail}
    [] name = "password" -> {<<"a">>, GoodPassword}
    [] name = "confirmPassword" -> {GoodPassword}
    [] name = "bio" -> {Letters(10)}

\* the dates picked in the date picker
PickedDates ==
  {[year |-> FirstYear - 12, month |-> 1, day |-> 1],
   [year |-> FirstYear - 13, month |-> 12, day |-> 31]}

\* checkbox-group: the option is removed when checked, appended otherwise
ToggleOption(value, option) ==
  IF \E i \in 1..Len(value) : value[i] = option
    THEN SelectSeq(value, LAMBDA v : v # option)
    ELSE Append(value, option)

\* the values a widget passes to onChange(name, value)
WidgetValues(name, d) ==
  CASE name \in {"fullName", "email", "password", "confirmPassword", "bio"}
         -> TypedTexts(name)
    [] name = "country" -> PickedCountries
    [] name = "gender" -> PickedGenders
    [] name = "acceptTerms" -> {~d.acceptTerms}
    [] name = "hobbies" -> {ToggleOption(d.hobbies, o) : o \in PickedHobbies}
    [] name = "dateOfBirth" -> PickedDates

(***************************************************************************)
(* Form controller (components/SignupForm.tsx)                             *)
(***************************************************************************)
\* new Date()
now == Clock[tick]

\* the user can act on the form when no Alert dialog is displayed
FormEnabled == alerts = <<>>

\* the component has no AsyncStorage call in flight: the user waits for the
\* outcome of one action on the store before taking the next
CanIssue == pending = <<>>

\* a faulty variant: the update re-runs the validation
handleInputChange_Revalidate(name, value) ==
  /\ formData' = [formData EXCEPT ![name] = value]
  /\ errors' = newErrors([formData EXCEPT ![name] = value], now)

handleInputChange(name, value) ==
  /\ formData' = [formData EXCEPT ![name] = value]
  /\ errors' = IF name \in DOMAIN errors /\ errors[name] # ""
                 THEN [errors EXCEPT ![name] = ""]
                 ELSE errors

HandleInputChange ==
  /\ FormEnabled
  /\ edits < MaxEdits
  /\ \E name \in FieldNames : \E value \in WidgetValues(name, formData) :
       handleInputChange(name, value)
  /\ edits' = edits + 1
  /\ UNCHANGED <<toast, timer, store, tick, pending, alerts, calls, ret, imVars>>

\* the call of AsyncStorage.setItem made by saveFormDataToStorage(data)
saveFormDataToStorage(data, formattedData) ==
  [op |-> "setItem", text |-> JSONstringify(StorageData(data)),
   data |-> data, formattedData |-> formattedData]

\* a faulty variant: a failed validation also resets the draft
HandleSubmit_ResetOnInvalid ==
  /\ FormEnabled
  /\ CanIssue
  /\ errors' = newErrors(formData, now)
  /\ IF validateForm(formData, now)
       THEN /\ pending' = Append(pending,
                 saveFormDataToStorage(formData, FormattedData(formData, now)))
            /\ UNCHANGED <<toast, timer, formData>>
       ELSE /\ showToast(MsgFixErrors, "error")
            /\ formData' = DefaultFormData
            /\ UNCHANGED pending
  /\ UNCHANGED <<store, tick, alerts, edits, calls, ret, imVars>>

\* handleSubmit up to its await
HandleSubmit ==
  /\ FormEnabled
  /\ CanIssue
  /\ errors' = newErrors(formData, now)
  /\ IF validateForm(formData, now)
       THEN /\ pending' = Append(pending,
                 saveFormDataToStorage(formData, FormattedData(formData, now)))
            /\ UNCHANGED <<toast, timer>>
       ELSE /\ showToast(MsgFixErrors, "error")
            /\ UNCHANGED pending
  /\ UNCHANGED <<formData, store, tick, alerts, edits, calls, ret, imVars>>

\* a faulty variant: resetForm() is called after the save
SubmitContinue_Reset(call) ==
  /\ showToast(MsgSuccess, "success")
  /\ alerts' = Append(alerts, [kind |-> "success", fullName |-> call.data.fullName])
  /\ formData' = DefaultFormData
  /\ errors' = NoErrors

\* handleSubmit after await saveFormDataToStorage(formData); the call of
\* resetForm() there is commented out
SubmitContinue(call) ==
  /\ showToast(MsgSuccess, "success")
  /\ alerts' = Append(alerts, [kind |-> "success", fullName |-> call.data.fullName])
  /\ UNCHANGED <<formData, errors>>

\* a faulty variant: the submit commits the record to the submitted list and clears
\* the draft key
SetItemResolved_Commit ==
  /\ pending # <<>>
  /\ Head(pending).op = "setItem"
  /\ store' =
       [store EXCEPT
          ![SUBMITTED_FORMS_KEY] =
             [arr |-> Append(IF "arr" \in DOMAIN @ THEN @.arr ELSE <<>>,
                             Head(pending).formattedData)],
          ![FORM_DATA_KEY] = AbsentKey]
  /\ SubmitContinue(Head(pending))
  /\ pending' = Tail(pending)
  /\ UNCHANGED <<tick, edits, calls, ret, imVars>>

\* AsyncStorage.setItem resolves
SetItemResolved ==
  /\ pending # <<>>
  /\ Head(pending).op = "setItem"
  /\ store' = [store EXCEPT ![FORM_DATA_KEY] = Head(pending).text]
  /\ SubmitContinue(Head(pending))
  /\ pending' = Tail(pending)
  /\ UNCHANGED <<tick, edits, calls, ret, imVars>>

\* AsyncStorage.setItem rejects: saveFormDataToStorage logs the error and
\* returns normally
SetItemRejected ==
  /\ pending # <<>>
  /\ Head(pending).op = "setItem"
  /\ SubmitContinue(Head(pending))
  /\ pending' = Tail(pending)
  /\ UNCHANGED <<store, tick, edits, calls, ret, imVars>>

\* getStoredFormData once AsyncStorage.getItem has resolved with the text
\* of the key: null for a missing key and when JSON.parse throws
getStoredFormData(text) ==
  IF text = AbsentKey \/ ParseThrows(text) THEN NullDate ELSE JSONparse(text)

\* the code after await getStoredFormData(), by the caller
ReadContinue(by, storedData) ==
  CASE by = "mount" ->
         /\ IF storedData # NullDate
              THEN showToast(MsgFound, "info")
              ELSE UNCHANGED <<toast, timer>>
         /\ UNCHANGED alerts
    [] by = "load" ->
         IF storedData # NullDate
           THEN /\ alerts' = Append(alerts, [kind |-> "load", storedData |-> storedData])
                /\ UNCHANGED <<toast, timer>>
           ELSE /\ showToast(MsgNotFound, "info")
                /\ UNCHANGED alerts
    [] by = "view" ->
         /\ alerts' = Append(alerts, [kind |-> "stored", storedData |-> storedData])
         /\ UNCHANGED <<toast, timer>>

\* AsyncStorage.getItem resolves
GetItemResolved ==
  /\ pending # <<>>
  /\ Head(pending).op = "getItem"
  /\ ReadContinue(Head(pending).by, getStoredFormData(store[FORM_DATA_KEY]))
  /\ pending' = Tail(pending)
  /\ UNCHANGED <<formData, errors, store, tick, edits, calls, ret, imVars>>

\* AsyncStorage.getItem rejects: getStoredFormData returns null
GetItemRejected ==
  /\ pending # <<>>
  /\ Head(pending).op = "getItem"
  /\ ReadContinue(Head(pending).by, NullDate)
  /\ pending' = Tail(pending)
  /\ UNCHANGED <<formData, errors, store, tick, edits, calls, ret, imVars>>

\* AsyncStorage.removeItem resolves (clearStoredFormData)
RemoveItemResolved ==
  /\ pending # <<>>
  /\ Head(pending).op = "removeItem"
  /\ store' = [store EXCEPT ![FORM_DATA_KEY] = AbsentKey]
  /\ showToast(MsgCleared, "info")
  /\ pending' = Tail(pending)
  /\ UNCHANGED <<formData, errors, tick, alerts, edits, calls, ret, imVars>>

\* AsyncStorage.removeItem rejects: clearStoredFormData logs the error and
\* returns normally
RemoveItemRejected ==
  /\ pending # <<>>
  /\ Head(pending).op = "removeItem"
  /\ showToast(MsgCleared, "info")
  /\ pending' = Tail(pending)
  /\ UNCHANGED <<formData, errors, store, tick, alerts, edits, calls, ret, imVars>>

\* the displayed Alert is of this kind
Displayed(kind) == alerts # <<>> /\ Head(alerts).kind = kind

\* 'Registration Successful' alert, button View Storage
PressViewStorage ==
  /\ Displayed("success")
  /\ CanIssue
  /\ pending' = Append(pending, [op |-> "getItem", by |-> "view"])
  /\ alerts' = Tail(alerts)
  /\ UNCHANGED <<formData, errors, toast, timer, store, tick, edits, calls, ret, imVars>>

\* 'Registration Successful' alert, button Clear Storage
PressClearStorage ==
  /\ Displayed("success")
  /\ CanIssue
  /\ pending' = Append(pending, [op |-> "removeItem", by |-> "clear"])
  /\ alerts' = Tail(alerts)
  /\ UNCHANGED <<formData, errors, toast, timer, store, tick, edits, calls, ret, imVars>>

\* a button without handler: OK, Cancel
DismissAlert ==
  /\ alerts # <<>>
  /\ alerts' = Tail(alerts)
  /\ UNCHANGED <<formData, errors, toast, timer, store, tick, pending, edits, calls, ret, imVars>>

\* button Load from Storage
PressLoad ==
  /\ FormEnabled
  /\ CanIssue
  /\ pending' = Append(pending, [op |-> "getItem", by |-> "load"])
  /\ UNCHANGED <<formData, errors, toast, timer, store, tick, alerts, edits, calls, ret, imVars>>

\* 'Load Stored Data' alert, button Load
ConfirmLoad ==
  /\ Displayed("load")
  /\ LET storedData == Head(alerts).storedData
     IN  formData' =
           [storedData EXCEPT !.dateOfBirth =
              IF @ # NullDate THEN newDate(@) ELSE NullDate]
  /\ showToast(MsgLoaded, "success")
  /\ alerts' = Tail(alerts)
  /\ UNCHANGED <<errors, store, tick, pending, edits, calls, ret, imVars>>

resetForm ==
  /\ formData' = DefaultFormData
  /\ errors' = NoErrors

\* button Reset Form
PressReset ==
  /\ FormEnabled
  /\ alerts' = Append(alerts, [kind |-> "reset"])
  /\ UNCHANGED <<formData, errors, toast, timer, store, tick, pending, edits, calls, ret, imVars>>

\* a faulty variant: the reset also removes the stored draft
ConfirmReset_ClearsStorage ==
  /\ Displayed("reset")
  /\ resetForm
  /\ showToast(MsgReset, "info")
  /\ alerts' = Tail(alerts)
  /\ store' = [store EXCEPT ![FORM_DATA_KEY] = AbsentKey]
  /\ UNCHANGED <<tick, pending, edits, calls, ret, imVars>>

\* 'Reset Form' alert, button Reset
ConfirmReset ==
  /\ Displayed("reset")
  /\ resetForm
  /\ showToast(MsgReset, "info")
  /\ alerts' = Tail(alerts)
  /\ UNCHANGED <<store, tick, pending, edits, calls, ret, imVars>>

hideToast ==
  /\ toast' = [toast EXCEPT !.visible = FALSE]
  /\ timer' = "off"

\* a faulty variant: a notification shown over a visible one stops the
\* running timer and starts none
ToastTimeout_FirstOnly ==
  /\ toast.visible
  /\ timer = "armed"
  /\ hideToast
  /\ UNCHANGED <<formData, errors, store, tick, pending, alerts, edits, calls, ret, imVars>>

\* the Toast's timer fires and its hide animation ends: onHide()
ToastTimeout ==
  /\ toast.visible
  /\ hideToast
  /\ UNCHANGED <<formData, errors, store, tick, pending, alerts, edits, calls, ret, imVars>>

\* time passes
Tick ==
  /\ tick < Len(Clock)
  /\ tick' = tick + 1
  /\ UNCHANGED <<formData, errors, toast, timer, store, pending, alerts, edits, calls, ret, imVars>>

(***************************************************************************)
(* The signup screen: one session of the component over a store that a     *)
(* previous session may have written                                       *)
(***************************************************************************)
StoredDraft ==
  [fullName |-> Letters(3), email |-> GoodEmail, password |-> GoodPassword,
   confirmPassword |-> GoodPassword, bio |-> Letters(11), country |-> "ca",
   gender |-> "other", acceptTerms |-> TRUE, hobbies |-> <<"music">>,
   dateOfBirth |-> [year |-> FirstYear - 13, month |-> 12, day |-> 31]]

Init ==
  /\ formData = DefaultFormData
  /\ errors = NoErrors
  /\ toast = NoToast
  /\ \E text \in {AbsentKey, JSONstringify(StorageData(StoredDraft))} :
       store = [EmptyStore EXCEPT ![FORM_DATA_KEY] = text]
  /\ tick = 1
  /\ pending = <<[op |-> "getItem", by |-> "mount"]>>
  /\ alerts = <<>>
  /\ edits = 0
  /\ calls = [c \in Callers |-> Idle]
  /\ ret = [c \in Callers |-> NoResult]
  /\ timer = "off"
  /\ dir = NoDirectory
  /\ batch = NoBatch

Next ==
  \/ HandleInputChange
  \/ HandleSubmit
  \/ SetItemResolved
  \/ SetItemRejected
  \/ GetItemResolved
  \/ GetItemRejected
  \/ RemoveItemResolved
  \/ RemoveItemRejected
  \/ PressViewStorage
  \/ PressClearStorage
  \/ DismissAlert
  \/ PressLoad
  \/ ConfirmLoad
  \/ PressReset
  \/ ConfirmReset
  \/ ToastTimeout
  \/ Tick

Spec == Init /\ [][Next]_vars

\* the signup screen within one day, its Toast's timer firing in the end:
\* the steps of the screen without the change of the date
NextToast ==
  \/ HandleInputChange
  \/ HandleSubmit
  \/ SetItemResolved
  \/ SetItemRejected
  \/ GetItemResolved
  \/ GetItemRejected
  \/ RemoveItemResolved
  \/ RemoveItemRejected
  \/ PressViewStorage
  \/ PressClearStorage
  \/ DismissAlert
  \/ PressLoad
  \/ ConfirmLoad
  \/ PressReset
  \/ ConfirmReset
  \/ ToastTimeout

SpecToast == Init /\ [][NextToast]_vars /\ WF_vars(ToastTimeout)

(***************************************************************************)
(* The validation alone: a submit on each draft of a bounded family        *)
(***************************************************************************)
\* l spaces, n letters, r spaces
Padded(l, n, r) ==
  [i \in 1..(l + n + r) |-> IF i <= l \/ i > l + n THEN " " ELSE "a"]

PaddedTexts(maxLen) ==
  {Padded(l, n, r) : l \in 0..1, n \in 0..maxLen, r \in 0..1}

RECURSIVE SeqsUpTo(_, _)
SeqsUpTo(chars, n) ==
  IF n = 0 THEN {<<>>}
  ELSE LET shorter == SeqsUpTo(chars, n - 1)
       IN  shorter \cup {Append(s, c) : s \in shorter, c \in chars}

EmailTexts == SeqsUpTo({"a", "@", ".", " "}, MaxEmailLen)

\* n characters taken in turn from cs
Cycled(cs, n) == [i \in 1..n |-> cs[((i - 1) % Len(cs)) + 1]]

PasswordAlphabets ==
  {SelectSeq(<<"a", "A", "1", "#">>, LAMBDA c : c \in S) :
     S \in SUBSET {"a", "A", "1", "#"} \ {{}}}

PasswordTexts == {Cycled(cs, n) : cs \in PasswordAlphabets, n \in 0..MaxPwLen}

BirthDates ==
  {[year |-> y, month |-> m, day |-> d] :
     y \in (FirstYear - MaxAge)..(FirstYear + 1), m \in {1, 12}, d \in {1, 31}}

\* the values of one field that its rule distinguishes
RuleValues(name) ==
  CASE name = "fullName" -> PaddedTexts(MaxNameLen)
    [] name = "email" -> EmailTexts
    [] name = "password" -> PasswordTexts
    [] name = "confirmPassword" -> {<<>>, <<"a">>, GoodPassword}
    [] name = "bio" -> PaddedTexts(MaxBioLen)
    [] name = "country" -> PickedCountries \cup {"", "ca"}
    [] name = "gender" -> PickedGenders \cup {"", "other"}
    [] name = "acceptTerms" -> BOOLEAN
    [] name = "hobbies" -> {<<>>, <<"music">>, <<"music", "reading">>}
    [] name = "dateOfBirth" -> BirthDates \cup {NullDate}

\* every field either at its default or at the value of StoredDraft
MixedDrafts ==
  {[f \in FieldNames |-> IF f \in S THEN StoredDraft[f] ELSE DefaultFormData[f]] :
     S \in SUBSET FieldNames}

\* one field over the values of its rule, the others all default or all
\* valid
ProbeDrafts ==
  UNION {{[base EXCEPT ![f] = v] : v \in RuleValues(f)} :
           base \in {DefaultFormData, StoredDraft}, f \in FieldNames}

InitValidate ==
  /\ formData \in MixedDrafts \cup ProbeDrafts
  /\ errors = NoErrors
  /\ toast = NoToast
  /\ store = EmptyStore
  /\ tick \in DOMAIN Clock
  /\ pending = <<>>
  /\ alerts = <<>>
  /\ edits = 0
  /\ calls = [c \in Callers |-> Idle]
  /\ ret = [c \in Callers |-> NoResult]
  /\ timer = "off"
  /\ dir = NoDirectory
  /\ batch = NoBatch

NextValidate ==
  \/ HandleSubmit
  \/ SetItemResolved
  \/ SetItemRejected

SpecValidate == InitValidate /\ [][NextValidate]_vars

(***************************************************************************)
(* Properties of the validation                                            *)
(***************************************************************************)
\* the submit has run validateForm on the current draft
Validated == toast.visible \/ pending # <<>>

\* validateForm returned true: handleSubmit went on to save
ReportedValid == pending # <<>> \/ alerts # <<>>

\* the positions of s that hold no white space
InkPositions(s) == {i \in 1..Len(s) : s[i] \notin WhiteSpace}

\* the length of s without its leading and trailing white space
TrimmedLength(s) ==
  IF InkPositions(s) = {} THEN 0
  ELSE LET first == CHOOSE i \in InkPositions(s) : \A j \in InkPositions(s) : i <= j
           last == CHOOSE i \in InkPositions(s) : \A j \in InkPositions(s) : j <= i
       IN  last - first + 1

Contains(s, class) == \E i \in 1..Len(s) : s[i] \in class

\* local-part @ domain . tld: one "@", not first, no white space, and a "."
\* after the "@" that neither follows it directly nor ends the text
WellFormedEmail(s) ==
  /\ Cardinality({i \in 1..Len(s) : s[i] = "@"}) = 1
  /\ ~Contains(s, WhiteSpace)
  /\ LET at == CHOOSE i \in 1..Len(s) : s[i] = "@"
     IN  /\ at > 1
         /\ \E dot \in (at + 2)..(Len(s) - 1) : s[dot] = "."

\* the rule of field f, as section 4.1 states it, fails on draft d
FailsRule(f, d, today) ==
  CASE f = "fullName" -> TrimmedLength(d.fullName) < 2
    [] f = "email" -> ~WellFormedEmail(d.email)
    [] f = "password" ->
         \/ Len(d.password) < 8
         \/ ~Contains(d.password, Lower)
         \/ ~Contains(d.password, Upper)
         \/ ~Contains(d.password, Digit)
    [] f = "confirmPassword" ->
         d.confirmPassword = <<>> \/ d.confirmPassword # d.password
    [] f = "bio" -> TrimmedLength(d.bio) < 10
    [] f = "country" -> d.country = ""
    [] f = "gender" -> d.gender = ""
    [] f = "acceptTerms" -> d.acceptTerms = FALSE
    [] f = "dateOfBirth" ->
         d.dateOfBirth = NullDate \/ today.year - d.dateOfBirth.year < 13
    [] f = "hobbies" -> FALSE

\* C7: once a draft is validated the Error Mapping has a key for exactly the
\* fields whose rule fails (never for hobbies), the form is reported valid
\* iff the mapping is empty, and acceptTerms = false always yields the key
\* acceptTerms.
C7_ErrorMappingExact ==
  Validated =>
    /\ DOMAIN errors = {f \in FieldNames : FailsRule(f, formData, now)}
    /\ \A f \in DOMAIN errors : errors[f] # ""
    /\ "hobbies" \notin DOMAIN errors
    /\ ReportedValid <=> (DOMAIN errors = {})
    /\ ~formData.acceptTerms => "acceptTerms" \in DOMAIN errors

\* a draft valid in every field but acceptTerms has been validated
C7_Witness ==
  /\ Validated
  /\ ~formData.acceptTerms
  /\ DOMAIN errors = {"acceptTerms"}
  /\ formData.hobbies = <<>>

\* C8: the password message follows the priority order: 'required' for the
\* empty password, 'tooShort' for 1 to 7 characters whatever they are,
\* 'weak' for 8 or more characters lacking a lowercase letter, an uppercase
\* letter or a digit, and no entry otherwise.
C8_PasswordPriority ==
  Validated =>
    LET pw == formData.password
        lacks == \/ ~Contains(pw, Lower)
                 \/ ~Contains(pw, Upper)
                 \/ ~Contains(pw, Digit)
    IN  IF pw = <<>>
          THEN "password" \in DOMAIN errors /\ errors.password = MsgPasswordRequired
        ELSE IF Len(pw) < 8
          THEN "password" \in DOMAIN errors /\ errors.password = MsgPasswordShort
        ELSE IF lacks
          THEN "password" \in DOMAIN errors /\ errors.password = MsgPasswordWeak
        ELSE "password" \notin DOMAIN errors

\* a 7-character password with all three classes is reported too short
C8_Witness ==
  /\ Validated
  /\ Len(formData.password) = 7
  /\ Contains(formData.password, Lower)
  /\ Contains(formData.password, Upper)
  /\ Contains(formData.password, Digit)
  /\ "password" \in DOMAIN errors
  /\ errors.password = MsgPasswordShort

\* C9: an absent dateOfBirth yields 'required'; a present one yields
\* 'tooYoung' exactly when current year - birth year < 13, whatever the
\* month and day, and no entry otherwise.
C9_YearDifferenceOnly ==
  Validated =>
    LET dob == formData.dateOfBirth
    IN  IF dob = NullDate
          THEN "dateOfBirth" \in DOMAIN errors /\ errors.dateOfBirth = MsgDobRequired
        ELSE IF now.year - dob.year < 13
          THEN "dateOfBirth" \in DOMAIN errors /\ errors.dateOfBirth = MsgDobTooYoung
        ELSE "dateOfBirth" \notin DOMAIN errors

\* born on the last day of the year current year - 13, validated on its
\* first day: twelve years old by the calendar, accepted by the year rule
C9_Witness ==
  /\ Validated
  /\ formData.dateOfBirth # NullDate
  /\ now.year - formData.dateOfBirth.year = 13
  /\ now.month = 1
  /\ formData.dateOfBirth.month = 12
  /\ "dateOfBirth" \notin DOMAIN errors

(***************************************************************************)
(* Properties of the form controller                                       *)
(***************************************************************************)
\* the submitted list as persisted under the submitted-list key
SubmittedList(st) ==
  IF "arr" \in DOMAIN st[SUBMITTED_FORMS_KEY]
    THEN st[SUBMITTED_FORMS_KEY].arr
    ELSE <<>>

\* the Error Mapping of draft d is non-empty
SomeRuleFails(d, today) == \E f \in FieldNames : FailsRule(f, d, today)

\* r is the Submitted Form Record of draft d stamped with the date today
IsSubmittedRecordOf(r, d, today) ==
  /\ DOMAIN r = FieldNames \cup {"submittedAt"}
  /\ \A f \in FieldNames \ {"dateOfBirth"} : r[f] = d[f]
  /\ r.dateOfBirth = [ymd |-> <<d.dateOfBirth.year, d.dateOfBirth.month, d.dateOfBirth.day>>]
  /\ r.submittedAt = [iso |-> <<today.year, today.month, today.day>>]

\* text is the JSON text of draft d, its dateOfBirth an ISO timestamp
IsStoredDraftOf(text, d) ==
  /\ DOMAIN text = {"obj"}
  /\ DOMAIN text.obj = FieldNames
  /\ \A f \in FieldNames \ {"dateOfBirth"} : text.obj[f] = d[f]
  /\ text.obj.dateOfBirth =
       [iso |-> <<d.dateOfBirth.year, d.dateOfBirth.month, d.dateOfBirth.day>>]

C5_Claimed_FailureShown ==
  [][SetItemRejected =>
       /\ toast' = [visible |-> TRUE, message |-> MsgFailed, type |-> "error"]
       /\ alerts' = alerts]_vars

\* C6: a submit on a draft whose Error Mapping is non-empty leaves every
\* field of the in-memory draft unchanged, keeps the freshly computed Error
\* Mapping, shows the error notification, and neither writes a key of the
\* store nor issues a write.
C6_InvalidSubmitKeepsDraft ==
  [][(HandleSubmit /\ SomeRuleFails(formData, now)) =>
       /\ formData' = formData
       /\ DOMAIN errors' = {f \in FieldNames : FailsRule(f, formData, now)}
       /\ \A f \in DOMAIN errors' : errors'[f] # ""
       /\ toast' = [visible |-> TRUE, message |-> MsgFixErrors, type |-> "error"]
       /\ store' = store
       /\ pending' = pending
       /\ alerts' = alerts]_vars

\* an invalid submit has run on a partly filled draft
C6_Witness ==
  /\ toast.visible
  /\ toast.message = MsgFixErrors
  /\ DOMAIN errors = {f \in FieldNames : FailsRule(f, formData, now)}
  /\ errors # NoErrors
  /\ formData # DefaultFormData
  /\ edits > 0

\* C10 as claimed: the update (f, v) sets field f to v, leaves the other
\* fields unchanged, removes the key f from the Error Mapping and leaves the
\* other entries unchanged.
C10_Claimed_EntryRemoved ==
  [][HandleInputChange =>
       \E f \in FieldNames : \E v \in WidgetValues(f, formData) :
         /\ formData' = [g \in FieldNames |-> IF g = f THEN v ELSE formData[g]]
         /\ DOMAIN errors' = DOMAIN errors \ {f}
         /\ \A g \in DOMAIN errors' : errors'[g] = errors[g]]_vars

\* C10 as amended: the update (f, v) sets field f to v, leaves the other
\* fields unchanged, replaces the message of f in the Error Mapping by the
\* empty message when f has an entry (the key stays), and leaves the entries
\* of the other fields unchanged, without re-running validation.
C10_UpdateBlanksEntry ==
  [][HandleInputChange =>
       \E f \in FieldNames : \E v \in WidgetValues(f, formData) :
         /\ formData' = [g \in FieldNames |-> IF g = f THEN v ELSE formData[g]]
         /\ DOMAIN errors' = DOMAIN errors
         /\ \A g \in DOMAIN errors :
              errors'[g] = IF g = f THEN "" ELSE errors[g]]_vars

\* the password was updated to a text that fails its rule after a failed
\* submit: its entry is blank and other entries keep their messages
C10_Witness ==
  /\ "password" \in DOMAIN errors
  /\ errors.password = ""
  /\ formData.password = <<"a">>
  /\ \E g \in DOMAIN errors : errors[g] # ""
  /\ \E g \in DOMAIN errors : errors[g] # "" /\ ~FailsRule(g, formData, now)

(***************************************************************************)
(* StorageManager: the persistence helpers over the same two keys          *)
(***************************************************************************)
Undefined == [undefined |-> TRUE]

\* the properties of a record that may hold undefined
OptionalFields == {"resume", "dateOfBirth"}

\* JSON.stringify leaves out the properties whose value is undefined
DropUndefined(r) ==
  [f \in {g \in DOMAIN r : ~(g \in OptionalFields /\ r[g] = Undefined)} |-> r[f]]

\* JSON.stringify of an array of records
JSONstringifyArray(forms) ==
  [arr |-> [i \in 1..Len(forms) |-> DropUndefined(forms[i])]]

\* getItem's text read as getFormData reads it: jsonData ? JSON.parse : null,
\* null when JSON.parse throws
ReadFormData(text) ==
  IF text = AbsentKey \/ ParseThrows(text) THEN NullDate ELSE JSONparse(text)

\* getItem's text read as getSubmittedForms reads it: jsonData ? JSON.parse
\* : [], [] when JSON.parse throws
ReadSubmittedForms(text) ==
  IF text = AbsentKey \/ ParseThrows(text) THEN <<>> ELSE text.arr

\* the operation resolves with value
Returned(value) == [status |-> "returned", value |-> value]

\* the operation rejects with the error of the AsyncStorage call from
Thrown(from) == [status |-> "thrown", from |-> from]

Void == [void |-> TRUE]

\* caller c is in operation op, awaiting the AsyncStorage call pc
Awaiting(c, op, pc) == calls[c].op = op /\ calls[c].pc = pc

\* caller c enters operation op with argument data and awaits pc
Enter(c, op, pc, data) ==
  /\ calls[c] = Idle
  /\ calls' = [calls EXCEPT ![c] = [op |-> op, pc |-> pc, data |-> data,
                                    forms |-> <<>>, current |-> NullDate]]
  /\ ret' = [ret EXCEPT ![c] = NoResult]
  /\ UNCHANGED <<store, formVars, imVars>>

\* caller c leaves its operation with outcome r
Leave(c, r) ==
  /\ calls' = [calls EXCEPT ![c] = Idle]
  /\ ret' = [ret EXCEPT ![c] = [op |-> calls[c].op] @@ r]

\* the drafts handed to saveFormData
SavedDrafts == {StoredDraft, DefaultFormData}

\* the records handed to saveCompletedRegistration
Registrations ==
  {[f \in FieldNames \cup {"submittedAt", "resume"} |->
      IF f = "resume" THEN resume ELSE FormattedData(StoredDraft, Clock[t])[f]] :
     t \in 1..2, resume \in {NullDate, Undefined}}

\* ---- saveFormData(data)
SaveFormDataCall(c) ==
  \E data \in SavedDrafts : Enter(c, "saveFormData", "setItem", data)

SaveFormDataResolved(c) ==
  /\ Awaiting(c, "saveFormData", "setItem")
  /\ store' = [store EXCEPT ![FORM_DATA_KEY] = JSONstringify(calls[c].data)]
  /\ Leave(c, Returned(Void))
  /\ UNCHANGED <<formVars, imVars>>

SaveFormDataRejected(c) ==
  /\ Awaiting(c, "saveFormData", "setItem")
  /\ Leave(c, Thrown("setItem"))
  /\ UNCHANGED <<store, formVars, imVars>>

\* ---- getFormData()
GetFormDataCall(c) == Enter(c, "getFormData", "getItem", NullDate)

GetFormDataResolved(c) ==
  /\ Awaiting(c, "getFormData", "getItem")
  /\ Leave(c, Returned(ReadFormData(store[FORM_DATA_KEY])))
  /\ UNCHANGED <<store, formVars, imVars>>

GetFormDataRejected(c) ==
  /\ Awaiting(c, "getFormData", "getItem")
  /\ Leave(c, Returned(NullDate))
  /\ UNCHANGED <<store, formVars, imVars>>

\* ---- getSubmittedForms()
GetSubmittedFormsCall(c) == Enter(c, "getSubmittedForms", "getItem", NullDate)

GetSubmittedFormsResolved(c) ==
  /\ Awaiting(c, "getSubmittedForms", "getItem")
  /\ Leave(c, Returned([arr |-> ReadSubmittedForms(store[SUBMITTED_FORMS_KEY])]))
  /\ UNCHANGED <<store, formVars, imVars>>

\* a faulty variant: the failed read is rethrown
GetSubmittedFormsRejected_Rethrows(c) ==
  /\ Awaiting(c, "getSubmittedForms", "getItem")
  /\ Leave(c, Thrown("getItem"))
  /\ UNCHANGED <<store, formVars, imVars>>

GetSubmittedFormsRejected(c) ==
  /\ Awaiting(c, "getSubmittedForms", "getItem")
  /\ Leave(c, Returned([arr |-> <<>>]))
  /\ UNCHANGED <<store, formVars, imVars>>

\* ---- saveCompletedRegistration(data)
SaveCompletedRegistrationCall(c) ==
  /\ Len(ReadSubmittedForms(store[SUBMITTED_FORMS_KEY])) < MaxForms
  /\ \E data \in Registrations :
       Enter(c, "saveCompletedRegistration", "getItem", data)

\* await this.getSubmittedForms() completes with forms
ScrGotForms(c, forms) ==
  /\ calls' = [calls EXCEPT ![c].forms = forms, ![c].pc = "setItem"]
  /\ UNCHANGED <<ret, store, formVars, imVars>>

ScrGetItemResolved(c) ==
  /\ Awaiting(c, "saveCompletedRegistration", "getItem")
  /\ ScrGotForms(c, ReadSubmittedForms(store[SUBMITTED_FORMS_KEY]))

ScrGetItemRejected(c) ==
  /\ Awaiting(c, "saveCompletedRegistration", "getItem")
  /\ ScrGotForms(c, <<>>)

\* a faulty variant: the new record is put in front of the list
ScrSetItemResolved_Prepend(c) ==
  /\ Awaiting(c, "saveCompletedRegistration", "setItem")
  /\ store' = [store EXCEPT ![SUBMITTED_FORMS_KEY] =
                 JSONstringifyArray(<<calls[c].data>> \o calls[c].forms)]
  /\ calls' = [calls EXCEPT ![c].pc = "removeItem"]
  /\ UNCHANGED <<ret, formVars, imVars>>

\* setItem(SUBMITTED_FORMS_KEY, JSON.stringify([...existingForms, data]))
ScrSetItemResolved(c) ==
  /\ Awaiting(c, "saveCompletedRegistration", "setItem")
  /\ store' = [store EXCEPT ![SUBMITTED_FORMS_KEY] =
                 JSONstringifyArray(Append(calls[c].forms, calls[c].data))]
  /\ calls' = [calls EXCEPT ![c].pc = "removeItem"]
  /\ UNCHANGED <<ret, formVars, imVars>>

\* a faulty variant: the draft is cleared whether or not the list was written
ScrSetItemRejected_ClearsDraft(c) ==
  /\ Awaiting(c, "saveCompletedRegistration", "setItem")
  /\ store' = [store EXCEPT ![FORM_DATA_KEY] = AbsentKey]
  /\ Leave(c, Thrown("setItem"))
  /\ UNCHANGED <<formVars, imVars>>

\* the setItem rejects: the catch logs and rethrows
ScrSetItemRejected(c) ==
  /\ Awaiting(c, "saveCompletedRegistration", "setItem")
  /\ Leave(c, Thrown("setItem"))
  /\ UNCHANGED <<store, formVars, imVars>>

\* await this.clearFormData()
ScrRemoveItemResolved(c) ==
  /\ Awaiting(c, "saveCompletedRegistration", "removeItem")
  /\ store' = [store EXCEPT ![FORM_DATA_KEY] = AbsentKey]
  /\ Leave(c, Returned(Void))
  /\ UNCHANGED <<formVars, imVars>>

ScrRemoveItemRejected(c) ==
  /\ Awaiting(c, "saveCompletedRegistration", "removeItem")
  /\ Leave(c, Thrown("removeItem"))
  /\ UNCHANGED <<store, formVars, imVars>>

\* ---- clearFormData()
ClearFormDataCall(c) == Enter(c, "clearFormData", "removeItem", NullDate)

ClearFormDataResolved(c) ==
  /\ Awaiting(c, "clearFormData", "removeItem")
  /\ store' = [store EXCEPT ![FORM_DATA_KEY] = AbsentKey]
  /\ Leave(c, Returned(Void))
  /\ UNCHANGED <<formVars, imVars>>

ClearFormDataRejected(c) ==
  /\ Awaiting(c, "clearFormData", "removeItem")
  /\ Leave(c, Thrown("removeItem"))
  /\ UNCHANGED <<store, formVars, imVars>>

\* ---- clearAllData()
ClearAllDataCall(c) == Enter(c, "clearAllData", "multiRemove", NullDate)

ClearAllDataResolved(c) ==
  /\ Awaiting(c, "clearAllData", "multiRemove")
  /\ store' = EmptyStore
  /\ Leave(c, Returned(Void))
  /\ UNCHANGED <<formVars, imVars>>

ClearAllDataRejected(c) ==
  /\ Awaiting(c, "clearAllData", "multiRemove")
  /\ Leave(c, Thrown("multiRemove"))
  /\ UNCHANGED <<store, formVars, imVars>>

\* ---- getStorageStats()
GetStorageStatsCall(c) == Enter(c, "getStorageStats", "getItem", NullDate)

\* await this.getFormData() completes with currentForm
StatsGotForm(c, currentForm) ==
  /\ calls' = [calls EXCEPT ![c].current = currentForm, ![c].pc = "getItem2"]
  /\ UNCHANGED <<ret, store, formVars, imVars>>

StatsGetFormResolved(c) ==
  /\ Awaiting(c, "getStorageStats", "getItem")
  /\ StatsGotForm(c, ReadFormData(store[FORM_DATA_KEY]))

StatsGetFormRejected(c) ==
  /\ Awaiting(c, "getStorageStats", "getItem")
  /\ StatsGotForm(c, NullDate)

\* a faulty variant: the date is taken from the first record of the list
StorageStats_FirstDate(currentForm, submittedForms) ==
  [hasCurrentForm |-> currentForm # NullDate,
   submittedFormsCount |-> Len(submittedForms),
   lastSubmissionDate |->
     IF Len(submittedForms) > 0
       THEN submittedForms[1].submittedAt
       ELSE NullDate]

\* the object getStorageStats returns
StorageStats(currentForm, submittedForms) ==
  [hasCurrentForm |-> currentForm # NullDate,
   submittedFormsCount |-> Len(submittedForms),
   lastSubmissionDate |->
     IF Len(submittedForms) > 0
       THEN submittedForms[Len(submittedForms)].submittedAt
       ELSE NullDate]

StatsGetListResolved(c) ==
  /\ Awaiting(c, "getStorageStats", "getItem2")
  /\ Leave(c, Returned(StorageStats(calls[c].current,
                                    ReadSubmittedForms(store[SUBMITTED_FORMS_KEY]))))
  /\ UNCHANGED <<store, formVars, imVars>>

StatsGetListRejected(c) ==
  /\ Awaiting(c, "getStorageStats", "getItem2")
  /\ Leave(c, Returned(StorageStats(calls[c].current, <<>>)))
  /\ UNCHANGED <<store, formVars, imVars>>

(***************************************************************************)
(* The StorageManager used by one session: its caller makes one call after *)
(* the other, over a store of any earlier content                          *)
(***************************************************************************)
AllIdle == \A c \in Callers : calls[c] = Idle

\* the caller of the session
SessionCaller == "c1"

\* the submitted lists a store may hold when the session starts
EarlierLists ==
  {<<>>} \cup {<<r>> : r \in {q \in Registrations : q.resume = NullDate}}

InitStore ==
  /\ formData = DefaultFormData
  /\ errors = NoErrors
  /\ toast = NoToast
  /\ \E draft \in {AbsentKey, Malformed, JSONstringify(StoredDraft)} :
     \E list \in {AbsentKey, Malformed} \cup {JSONstringifyArray(l) : l \in EarlierLists} :
       store = [k \in {FORM_DATA_KEY, SUBMITTED_FORMS_KEY} |->
                  IF k = FORM_DATA_KEY THEN draft ELSE list]
  /\ tick = 1
  /\ pending = <<>>
  /\ alerts = <<>>
  /\ edits = 0
  /\ calls = [c \in Callers |-> Idle]
  /\ ret = [c \in Callers |-> NoResult]
  /\ timer = "off"
  /\ dir = NoDirectory
  /\ batch = NoBatch

CallStore(c) ==
  /\ AllIdle
  /\ \/ SaveFormDataCall(c)
     \/ GetFormDataCall(c)
     \/ GetSubmittedFormsCall(c)
     \/ SaveCompletedRegistrationCall(c)
     \/ ClearFormDataCall(c)
     \/ ClearAllDataCall(c)
     \/ GetStorageStatsCall(c)

StepStore(c) ==
  \/ SaveFormDataResolved(c)
  \/ SaveFormDataRejected(c)
  \/ GetFormDataResolved(c)
  \/ GetFormDataRejected(c)
  \/ GetSubmittedFormsResolved(c)
  \/ GetSubmittedFormsRejected(c)
  \/ ScrGetItemResolved(c)
  \/ ScrGetItemRejected(c)
  \/ ScrSetItemResolved(c)
  \/ ScrSetItemRejected(c)
  \/ ScrRemoveItemResolved(c)
  \/ ScrRemoveItemRejected(c)
  \/ ClearFormDataResolved(c)
  \/ ClearFormDataRejected(c)
  \/ ClearAllDataResolved(c)
  \/ ClearAllDataRejected(c)
  \/ StatsGetFormResolved(c)
  \/ StatsGetFormRejected(c)
  \/ StatsGetListResolved(c)
  \/ StatsGetListRejected(c)

NextStore == CallStore(SessionCaller) \/ StepStore(SessionCaller)

SpecStore == InitStore /\ [][NextStore]_vars

(***************************************************************************)
(* Properties of the StorageManager                                        *)
(***************************************************************************)
\* property f of record r as a read of it yields it
Field(r, f) == IF f \in DOMAIN r THEN r[f] ELSE Undefined

\* a and b are equal in every field
SameRecord(a, b) == \A f \in DOMAIN a \cup DOMAIN b : Field(a, f) = Field(b, f)

\* C1: when the write of the updated list fails in saveCompletedRegistration
\* the store is left as it was, the failure is rethrown to the caller and
\* the call ends; within a call the draft key changes only once the list
\* key holds the updated list.
C1_FailedCommitKeepsDraft ==
  [][\A c \in Callers :
       /\ ScrSetItemRejected(c) =>
            /\ store' = store
            /\ ret'[c] = [op |-> "saveCompletedRegistration",
                          status |-> "thrown", from |-> "setItem"]
            /\ calls'[c] = Idle
       /\ (calls[c].op = "saveCompletedRegistration"
             /\ store'[FORM_DATA_KEY] # store[FORM_DATA_KEY]) =>
            /\ calls[c].pc = "removeItem"
            /\ store[SUBMITTED_FORMS_KEY] =
                 JSONstringifyArray(Append(calls[c].forms, calls[c].data))]_vars

\* a commit has failed at the write of the list over a stored draft, and the
\* draft and the earlier list are still there
C1_Witness ==
  /\ AllIdle
  /\ \E c \in Callers :
       /\ ret[c].op = "saveCompletedRegistration"
       /\ ret[c].status = "thrown"
       /\ ret[c].from = "setItem"
  /\ store[FORM_DATA_KEY] = JSONstringify(StoredDraft)
  /\ Len(ReadSubmittedForms(store[SUBMITTED_FORMS_KEY])) = 1

\* C2: when saveCompletedRegistration(r) returns, the list that
\* getSubmittedForms reads from the store ends with a record equal to r in
\* every field and getFormData reads no draft.
C2_CommitThenRead ==
  [][\A c \in Callers :
       ScrRemoveItemResolved(c) =>
         LET forms == ReadSubmittedForms(store'[SUBMITTED_FORMS_KEY])
         IN  /\ ret'[c] = [op |-> "saveCompletedRegistration",
                           status |-> "returned", value |-> Void]
             /\ forms # <<>>
             /\ SameRecord(forms[Len(forms)], calls[c].data)
             /\ Len(forms) = Len(calls[c].forms) + 1
             /\ ReadFormData(store'[FORM_DATA_KEY]) = NullDate]_vars

\* a commit of a record with an undefined property has returned over a
\* list of one record: the list holds two, the draft key is absent
C2_Witness ==
  /\ AllIdle
  /\ \E c \in Callers :
       /\ ret[c].op = "saveCompletedRegistration"
       /\ ret[c].status = "returned"
  /\ store[FORM_DATA_KEY] = AbsentKey
  /\ LET forms == ReadSubmittedForms(store[SUBMITTED_FORMS_KEY])
     IN  /\ Len(forms) = 2
         /\ "resume" \notin DOMAIN forms[2]

(***************************************************************************)
(* The ImageStorage: saveImages and clearAllImages over the file system.   *)
(* A batch starts the work on all its items at once and the items proceed  *)
(* one file-system call at a time, in any order                            *)
(***************************************************************************)
\* the captured pictures, at their temporary locations
Captured ==
  {[name |-> ImageFileNames[k], uri |-> Path(CacheDirectory, ImageFileNames[k])] :
     k \in DOMAIN ImageFileNames}

RECURSIVE BatchesUpTo(_)
BatchesUpTo(n) ==
  IF n = 0 THEN {<<>>}
  ELSE BatchesUpTo(n - 1)
         \cup {Append(b, image) : b \in {q \in BatchesUpTo(n - 1) : Len(q) = n - 1},
                                  image \in Captured}

\* the arguments of saveImages
Batches == BatchesUpTo(MaxBatch)

\* the content of a file saved by an earlier call
EarlierFile == Path(CacheDirectory, "earlier.jpg")

\* files.map(file => `${IMAGE_DIRECTORY}${file}`) over the directory's entries
Listing(d) ==
  LET present == SelectSeq(ImageFileNames, LAMBDA n : d.files[n] # NoFile)
  IN  [k \in DOMAIN present |-> Path(IMAGE_DIRECTORY, present[k])]

\* the item has run to its end
ItemSettled(item) == item.pc \in {"done", "failed"}

\* every item of the items has run to its end
AllSettled(items) == \A k \in DOMAIN items : ItemSettled(items[k])

\* no ImageStorage call is in progress, none of its items either
BatchFree ==
  \/ batch.op = "idle"
  \/ batch.out.status # "none" /\ batch.phase = "items" /\ AllSettled(batch.items)

\* item i of the call op awaits the file-system call pc
ItemAt(op, i, pc) ==
  /\ batch.op = op
  /\ batch.phase = "items"
  /\ i \in DOMAIN batch.items
  /\ batch.items[i].pc = pc

\* ---- saveImages(images): images.map(async image => saveImage(...))
\* the records saveImages resolves with
SavedImages(images) ==
  [k \in DOMAIN images |->
     [images[k] EXCEPT !.uri = Path(IMAGE_DIRECTORY, images[k].name)]]

SaveImagesCall ==
  /\ BatchFree
  /\ \E images \in Batches :
       batch' = [op |-> "saveImages", phase |-> "items", images |-> images,
                 items |-> [k \in DOMAIN images |-> [pc |-> "getInfo"]],
                 out |-> IF images = <<>>
                           THEN Returned(<<>>)
                           ELSE [status |-> "none"],
                 before |-> dir]
  /\ UNCHANGED <<dir, store, formVars, smVars>>

\* ensureDirectoryExists of item i: getInfoAsync resolved
SaveEnsureInfoResolved(i) ==
  /\ ItemAt("saveImages", i, "getInfo")
  /\ batch' = [batch EXCEPT !.items[i].pc =
                              IF dir.exists THEN "copy" ELSE "mkdir"]
  /\ UNCHANGED <<dir, store, formVars, smVars>>

\* ensureDirectoryExists of item i: the failure is logged
SaveEnsureInfoRejected(i) ==
  /\ ItemAt("saveImages", i, "getInfo")
  /\ batch' = [batch EXCEPT !.items[i].pc = "copy"]
  /\ UNCHANGED <<dir, store, formVars, smVars>>

SaveMkdirResolved(i) ==
  /\ ItemAt("saveImages", i, "mkdir")
  /\ dir' = [dir EXCEPT !.exists = TRUE]
  /\ batch' = [batch EXCEPT !.items[i].pc = "copy"]
  /\ UNCHANGED <<store, formVars, smVars>>

SaveMkdirRejected(i) ==
  /\ ItemAt("saveImages", i, "mkdir")
  /\ batch' = [batch EXCEPT !.items[i].pc = "copy"]
  /\ UNCHANGED <<dir, store, formVars, smVars>>

\* copyAsync of item i resolved: saveImage returns newPath; Promise.all
\* resolves once every item has returned
CopyResolved(i) ==
  /\ ItemAt("saveImages", i, "copy")
  /\ dir.exists
  /\ dir' = [dir EXCEPT !.files[batch.images[i].name] = batch.images[i].uri]
  /\ LET items == [batch.items EXCEPT ![i].pc = "done"]
     IN  batch' = [batch EXCEPT
                     !.items = items,
                     !.out = IF @.status = "none" /\ \A k \in DOMAIN items : items[k].pc = "done"
                               THEN Returned(SavedImages(batch.images))
                               ELSE @]
  /\ UNCHANGED <<store, formVars, smVars>>

\* a faulty variant: a failed copy is left out of the list that is returned
CopyRejected_PartialList(i) ==
  /\ ItemAt("saveImages", i, "copy")
  /\ LET items == [batch.items EXCEPT ![i].pc = "failed"]
         saved == SavedImages(batch.images)
     IN  batch' = [batch EXCEPT
                     !.items = items,
                     !.out = IF @.status = "none" /\ AllSettled(items)
                               THEN Returned(SelectSeq(saved,
                                      LAMBDA r : \E k \in DOMAIN items :
                                        items[k].pc = "done" /\ saved[k] = r))
                               ELSE @]
  /\ UNCHANGED <<dir, store, formVars, smVars>>

\* copyAsync of item i rejected: saveImage rethrows, Promise.all rejects with
\* the first failure and saveImages rethrows it; the other items go on
CopyRejected(i) ==
  /\ ItemAt("saveImages", i, "copy")
  /\ batch' = [batch EXCEPT
                 !.items[i].pc = "failed",
                 !.out = IF @.status = "none" THEN Thrown("copyAsync") ELSE @]
  /\ UNCHANGED <<dir, store, formVars, smVars>>

\* ---- clearAllImages(): getAllSavedImages, then deleteImage on each entry
\* the call is in this phase of getAllSavedImages
ListingAt(phase) == batch.op = "clearAllImages" /\ batch.phase = phase

ClearAllImagesCall ==
  /\ BatchFree
  /\ batch' = [op |-> "clearAllImages", phase |-> "getInfo", images |-> <<>>,
               items |-> <<>>, out |-> [status |-> "none"], before |-> dir]
  /\ UNCHANGED <<dir, store, formVars, smVars>>

ClearEnsureInfoResolved ==
  /\ ListingAt("getInfo")
  /\ batch' = [batch EXCEPT !.phase = IF dir.exists THEN "readdir" ELSE "mkdir"]
  /\ UNCHANGED <<dir, store, formVars, smVars>>

ClearEnsureInfoRejected ==
  /\ ListingAt("getInfo")
  /\ batch' = [batch EXCEPT !.phase = "readdir"]
  /\ UNCHANGED <<dir, store, formVars, smVars>>

ClearMkdirResolved ==
  /\ ListingAt("mkdir")
  /\ dir' = [dir EXCEPT !.exists = TRUE]
  /\ batch' = [batch EXCEPT !.phase = "readdir"]
  /\ UNCHANGED <<store, formVars, smVars>>

ClearMkdirRejected ==
  /\ ListingAt("mkdir")
  /\ batch' = [batch EXCEPT !.phase = "readdir"]
  /\ UNCHANGED <<dir, store, formVars, smVars>>

\* images.map(imageUri => this.deleteImage(imageUri)) under Promise.all
StartDeletions(images) ==
  batch' = [batch EXCEPT
              !.phase = "items",
              !.images = images,
              !.items = [k \in DOMAIN images |-> [pc |-> "getInfo"]],
              !.out = IF images = <<>> THEN Returned(Void) ELSE @]

ReadDirectoryResolved ==
  /\ ListingAt("readdir")
  /\ dir.exists
  /\ StartDeletions(Listing(dir))
  /\ UNCHANGED <<dir, store, formVars, smVars>>

\* getAllSavedImages returns [] on a failure
ReadDirectoryRejected ==
  /\ ListingAt("readdir")
  /\ StartDeletions(<<>>)
  /\ UNCHANGED <<dir, store, formVars, smVars>>

\* the file a listed uri names
FileOf(uri) == uri[2]

\* a faulty variant: the failure of one deletion ends the whole call
DeleteEnds_StopOnFailure(i, pc) ==
  LET items == [batch.items EXCEPT ![i].pc = pc]
      stopped == [k \in DOMAIN items |->
                    IF ItemSettled(items[k]) THEN items[k] ELSE [pc |-> "failed"]]
  IN  IF pc = "failed"
        THEN batch' = [batch EXCEPT !.items = stopped, !.out = Returned(Void)]
        ELSE batch' = [batch EXCEPT
                         !.items = items,
                         !.out = IF AllSettled(items) THEN Returned(Void) ELSE @]

\* item i of clearAllImages ends with pc; Promise.all resolves once every
\* deleteImage has returned, and none of them throws
DeleteEnds(i, pc) ==
  LET items == [batch.items EXCEPT ![i].pc = pc]
  IN  batch' = [batch EXCEPT
                  !.items = items,
                  !.out = IF AllSettled(items) THEN Returned(Void) ELSE @]

\* deleteImage of item i: getInfoAsync resolved
DeleteInfoResolved(i) ==
  /\ ItemAt("clearAllImages", i, "getInfo")
  /\ IF dir.files[FileOf(batch.images[i])] # NoFile
       THEN batch' = [batch EXCEPT !.items[i].pc = "delete"]
       ELSE DeleteEnds(i, "done")
  /\ UNCHANGED <<dir, store, formVars, smVars>>

\* deleteImage of item i: the failure is logged
DeleteInfoRejected(i) ==
  /\ ItemAt("clearAllImages", i, "getInfo")
  /\ DeleteEnds(i, "failed")
  /\ UNCHANGED <<dir, store, formVars, smVars>>

DeleteResolved(i) ==
  /\ ItemAt("clearAllImages", i, "delete")
  /\ dir' = [dir EXCEPT !.files[FileOf(batch.images[i])] = NoFile]
  /\ DeleteEnds(i, "done")
  /\ UNCHANGED <<store, formVars, smVars>>

DeleteRejected(i) ==
  /\ ItemAt("clearAllImages", i, "delete")
  /\ DeleteEnds(i, "failed")
  /\ UNCHANGED <<dir, store, formVars, smVars>>

\* ---- one session of calls on the ImageStorage
\* the directories an earlier session may have left
EarlierDirectories ==
  {NoDirectory}
    \cup {[exists |-> TRUE,
           files |-> [n \in DOMAIN NoDirectory.files |->
                        IF n \in S THEN EarlierFile ELSE NoFile]] :
            S \in SUBSET DOMAIN NoDirectory.files}

InitImages ==
  /\ formData = DefaultFormData
  /\ errors = NoErrors
  /\ toast = NoToast
  /\ timer = "off"
  /\ store = [EmptyStore EXCEPT
                ![FORM_DATA_KEY] = JSONstringify(StorageData(StoredDraft)),
                ![SUBMITTED_FORMS_KEY] = JSONstringifyArray(<<>>)]
  /\ tick = 1
  /\ pending = <<>>
  /\ alerts = <<>>
  /\ edits = 0
  /\ calls = [c \in Callers |-> Idle]
  /\ ret = [c \in Callers |-> NoResult]
  /\ dir \in EarlierDirectories
  /\ batch = NoBatch

\* the positions an item of a call may have
ItemIndexes == 1..(MaxBatch + Len(ImageFileNames))

ItemStep(i) ==
  \/ SaveEnsureInfoResolved(i)
  \/ SaveEnsureInfoRejected(i)
  \/ SaveMkdirResolved(i)
  \/ SaveMkdirRejected(i)
  \/ CopyResolved(i)
  \/ CopyRejected(i)
  \/ DeleteInfoResolved(i)
  \/ DeleteInfoRejected(i)
  \/ DeleteResolved(i)
  \/ DeleteRejected(i)

NextImages ==
  \/ SaveImagesCall
  \/ ClearAllImagesCall
  \/ ClearEnsureInfoResolved
  \/ ClearEnsureInfoRejected
  \/ ClearMkdirResolved
  \/ ClearMkdirRejected
  \/ ReadDirectoryResolved
  \/ ReadDirectoryRejected
  \/ \E i \in ItemIndexes : ItemStep(i)

SpecImages == InitImages /\ [][NextImages]_vars

(***************************************************************************)
(* Properties of the ImageStorage                                          *)
(***************************************************************************)
\* some copy of the saveImages call has failed
SomeCopyFailed(b) ==
  b.op = "saveImages" /\ \E k \in DOMAIN b.items : b.items[k].pc = "failed"

\* C11: a saveImages call in which a copy has failed has thrown to its
\* caller and returns no list; a call that returns has made every copy and
\* returns its records in their order, each uri replaced by the path of the
\* file in the image directory; no step of the call changes the draft key
\* or the submitted-list key.
C11_SaveImagesAllOrNothing ==
  [][/\ store' = store
     /\ SomeCopyFailed(batch') => batch'.out = Thrown("copyAsync")
     /\ (batch'.op = "saveImages" /\ batch'.out.status = "returned") =>
          /\ \A k \in DOMAIN batch'.items : batch'.items[k].pc = "done"
          /\ Len(batch'.out.value) = Len(batch'.images)
          /\ \A k \in DOMAIN batch'.images :
               /\ batch'.out.value[k].name = batch'.images[k].name
               /\ batch'.out.value[k].uri =
                    <<IMAGE_DIRECTORY, batch'.images[k].name>>]_vars

\* a batch of two has ended with one picture copied and the other failed
C11_Witness ==
  /\ batch.op = "saveImages"
  /\ Len(batch.images) = 2
  /\ AllSettled(batch.items)
  /\ \E k \in DOMAIN batch.items : batch.items[k].pc = "done"
  /\ SomeCopyFailed(batch)
  /\ batch.out.status = "thrown"

\* the deletion of item i fails in this step
DeletionFails(i) == DeleteInfoRejected(i) \/ DeleteRejected(i)

\* C12: clearAllImages starts a deletion for every listed image; a deletion
\* that fails leaves the deletions of the other images as they are, to go
\* on; the call never throws, and when it returns every deletion has ended
\* and every image whose deletion did not fail is gone.
C12_ClearAllTolerant ==
  [][/\ ReadDirectoryResolved =>
          /\ batch'.images = Listing(dir)
          /\ \A k \in DOMAIN batch'.images : batch'.items[k].pc = "getInfo"
     /\ \A i \in ItemIndexes :
          DeletionFails(i) =>
            /\ dir' = dir
            /\ \A k \in DOMAIN batch.items \ {i} : batch'.items[k] = batch.items[k]
     /\ batch'.op = "clearAllImages" =>
          /\ batch'.out.status # "thrown"
          /\ batch'.out.status = "returned" =>
               /\ DOMAIN batch'.items = DOMAIN batch'.images
               /\ \A k \in DOMAIN batch'.items :
                    /\ ItemSettled(batch'.items[k])
                    /\ batch'.items[k].pc = "done" =>
                         dir'.files[FileOf(batch'.images[k])] = NoFile]_vars

\* clearAllImages has returned over two listed images: the deletion of one
\* failed and its file is still there, the other image is gone
C12_Witness ==
  /\ batch.op = "clearAllImages"
  /\ batch.out.status = "returned"
  /\ Len(batch.images) = 2
  /\ \E k \in DOMAIN batch.items :
       /\ batch.items[k].pc = "failed"
       /\ dir.files[FileOf(batch.images[k])] # NoFile
  /\ \E k \in DOMAIN batch.items :
       /\ batch.items[k].pc = "done"
       /\ dir.files[FileOf(batch.images[k])] = NoFile
       /\ batch.before.files[FileOf(batch.images[k])] # NoFile

(***************************************************************************)
(* Properties of the StorageManager's reads                                *)
(***************************************************************************)
\* a readable draft is stored under the draft key
DraftStored(st) == "obj" \in DOMAIN st[FORM_DATA_KEY]

\* C13: getStorageStats never throws and leaves the store alone; with both
\* reads served it returns hasCurrentForm true iff a readable draft is
\* stored, the length of the stored list and the submittedAt of its last
\* record (null for an empty list); a failed read of the draft gives
\* hasCurrentForm false, a failed read of the list gives 0 and null.
C13_StatsReportStore ==
  [][\A c \in Callers :
       /\ calls[c].op = "getStorageStats" =>
            /\ store' = store
            /\ ret'[c].status # "thrown"
       /\ StatsGetFormResolved(c) =>
            (calls'[c].current # NullDate) = DraftStored(store)
       /\ StatsGetFormRejected(c) => calls'[c].current = NullDate
       /\ StatsGetListResolved(c) =>
            LET list == SubmittedList(store)
            IN  ret'[c] =
                  [op |-> "getStorageStats", status |-> "returned",
                   value |->
                     [hasCurrentForm |-> calls[c].current # NullDate,
                      submittedFormsCount |-> Len(list),
                      lastSubmissionDate |->
                        IF list = <<>> THEN NullDate
                        ELSE list[Len(list)].submittedAt]]
       /\ StatsGetListRejected(c) =>
            ret'[c] =
              [op |-> "getStorageStats", status |-> "returned",
               value |-> [hasCurrentForm |-> calls[c].current # NullDate,
                          submittedFormsCount |-> 0,
                          lastSubmissionDate |-> NullDate]]]_vars

\* getStorageStats has returned over a stored draft and a list of two
\* records submitted at different times
C13_Witness ==
  /\ AllIdle
  /\ DraftStored(store)
  /\ Len(SubmittedList(store)) = 2
  /\ SubmittedList(store)[1].submittedAt # SubmittedList(store)[2].submittedAt
  /\ \E c \in Callers :
       /\ ret[c].op = "getStorageStats"
       /\ ret[c].status = "returned"
       /\ ret[c].value.hasCurrentForm
       /\ ret[c].value.submittedFormsCount = 2
       /\ ret[c].value.lastSubmissionDate = SubmittedList(store)[2].submittedAt

\* the value a read of the StorageManager has resolved with
ReadResult(op, value) == [op |-> op, status |-> "returned", value |-> value]

\* C14: getFormData and getSubmittedForms never throw and never change the
\* store; getFormData returns null when the draft key is absent, its read
\* fails or its text is malformed, and the stored object otherwise;
\* getSubmittedForms returns the empty list when the list key is absent, its
\* read fails or its text is malformed, and the stored list otherwise.
C14_ReadsNeverFail ==
  [][\A c \in Callers :
       /\ calls[c].op \in {"getFormData", "getSubmittedForms"} =>
            /\ store' = store
            /\ ret'[c].status # "thrown"
       /\ GetFormDataResolved(c) =>
            ret'[c] = ReadResult("getFormData",
                        IF DraftStored(store)
                          THEN store[FORM_DATA_KEY].obj
                          ELSE NullDate)
       /\ GetFormDataRejected(c) => ret'[c] = ReadResult("getFormData", NullDate)
       /\ GetSubmittedFormsResolved(c) =>
            ret'[c] = ReadResult("getSubmittedForms", [arr |-> SubmittedList(store)])
       /\ GetSubmittedFormsRejected(c) =>
            ret'[c] = ReadResult("getSubmittedForms", [arr |-> <<>>])]_vars

\* a read of the list has failed over a stored list of one record and has
\* returned the empty list
C14_Witness ==
  /\ AllIdle
  /\ Len(SubmittedList(store)) = 1
  /\ \E c \in Callers : ret[c] = ReadResult("getSubmittedForms", [arr |-> <<>>])

(***************************************************************************)
(* Properties of the form controller's use of the store                    *)
(***************************************************************************)
\* the getItem of the mount-time check completes in this step
MountCheckCompletes ==
  /\ pending # <<>>
  /\ Head(pending).op = "getItem"
  /\ Head(pending).by = "mount"
  /\ GetItemResolved \/ GetItemRejected

\* C15: field updates, reset, the mount-time check and load-draft leave the
\* store unchanged; the draft key gets a value only when the setItem of a
\* submit resolves and changes otherwise only when Clear Storage removes it;
\* the submitted-list key never changes; the mount-time check only shows
\* its notification; reset sets the draft and the Error Mapping to their
\* defaults.
C15_DraftWrittenOnlyBySubmit ==
  [][/\ (HandleInputChange \/ PressReset \/ ConfirmReset \/ PressLoad
           \/ ConfirmLoad \/ GetItemResolved \/ GetItemRejected) =>
          store' = store
     /\ store'[FORM_DATA_KEY] # store[FORM_DATA_KEY] =>
          \/ SetItemResolved
          \/ RemoveItemResolved /\ store'[FORM_DATA_KEY] = AbsentKey
     /\ store'[SUBMITTED_FORMS_KEY] = store[SUBMITTED_FORMS_KEY]
     /\ MountCheckCompletes =>
          /\ formData' = formData
          /\ errors' = errors
          /\ alerts' = alerts
          /\ toast' = IF GetItemResolved /\ DraftStored(store)
                        THEN [visible |-> TRUE, message |-> MsgFound, type |-> "info"]
                        ELSE toast
     /\ ConfirmReset => formData' = DefaultFormData /\ errors' = NoErrors]_vars

\* the form has been edited and then reset while the draft of the earlier
\* session is still stored
C15_Witness ==
  /\ edits > 0
  /\ formData = DefaultFormData
  /\ toast = [visible |-> TRUE, message |-> MsgReset, type |-> "info"]
  /\ store[FORM_DATA_KEY] = JSONstringify(StorageData(StoredDraft))

\* C16: the draft a submit persists is stored as its JSON text with
\* dateOfBirth an ISO timestamp, and the Load button replaces the in-memory
\* draft by the record whose JSON text is the stored one: equal to the
\* persisted draft in every field, dateOfBirth a date again.
C16_SaveLoadRoundTrip ==
  [][/\ SetItemResolved =>
          IsStoredDraftOf(store'[FORM_DATA_KEY], Head(pending).data)
     /\ ConfirmLoad =>
          /\ store[FORM_DATA_KEY] = [obj |-> Head(alerts).storedData]
          /\ IsDate(formData'.dateOfBirth)
          /\ IsStoredDraftOf(store[FORM_DATA_KEY], formData')]_vars

\* a draft persisted by a submit of this session, other than the one the
\* earlier session left, has been loaded
C16_Witness ==
  /\ toast = [visible |-> TRUE, message |-> MsgLoaded, type |-> "success"]
  /\ edits > 0
  /\ store[FORM_DATA_KEY] # AbsentKey
  /\ store[FORM_DATA_KEY] # JSONstringify(StorageData(StoredDraft))
  /\ IsStoredDraftOf(store[FORM_DATA_KEY], formData)

(***************************************************************************)
(* Two callers of saveCompletedRegistration on the same store: neither     *)
(* waits for the other, their calls interleave at the awaits; the reads of *)
(* the list are served                                                     *)
(***************************************************************************)
\* the record each caller commits
RegistrationOf(c) ==
  [f \in FieldNames \cup {"submittedAt", "resume"} |->
     IF f = "resume" THEN NullDate
     ELSE FormattedData(StoredDraft, Clock[IF c = "c1" THEN 1 ELSE 2])[f]]

\* saveCompletedRegistration(data) called while other calls may be running
CommitCall(c) ==
  /\ Len(ReadSubmittedForms(store[SUBMITTED_FORMS_KEY])) < MaxForms
  /\ Enter(c, "saveCompletedRegistration", "getItem", RegistrationOf(c))

NextInterleaved ==
  \E c \in Callers :
    \/ CommitCall(c)
    \/ ScrGetItemResolved(c)
    \/ ScrSetItemResolved(c)
    \/ ScrSetItemRejected(c)
    \/ ScrRemoveItemResolved(c)
    \/ ScrRemoveItemRejected(c)

SpecInterleaved == InitStore /\ [][NextInterleaved]_vars

\* record r is in the list
InList(r, list) == \E k \in DOMAIN list : SameRecord(list[k], r)

\* C17 as claimed: once the calls of both callers have returned, the stored
\* list holds the record of each of them.
C17_Claimed_NoLostUpdate ==
  (\A c \in Callers :
     /\ calls[c] = Idle
     /\ ret[c] = [op |-> "saveCompletedRegistration",
                  status |-> "returned", value |-> Void])
    => \A c \in Callers : InList(RegistrationOf(c), SubmittedList(store))

\* list a is the beginning of list b
IsPrefix(a, b) ==
  /\ Len(a) <= Len(b)
  /\ \A k \in DOMAIN a : b[k] = a[k]

\* C18 as claimed: no step of saveCompletedRegistration takes a record out
\* of the stored list or changes the order of its records: the list stored
\* before the step is the beginning of the list stored after it.
C18_Claimed_AppendOnly ==
  [][\A c \in Callers :
       calls[c].op = "saveCompletedRegistration" =>
         IsPrefix(SubmittedList(store), SubmittedList(store'))]_vars

\* C19 as claimed: once a saveImages call has thrown to its caller, the
\* files of the image directory are those it held when the call was made.
C19_Claimed_DirectoryRestored ==
  (batch.op = "saveImages" /\ batch.out.status = "thrown")
    => dir.files = batch.before.files

(***************************************************************************)
(* Properties of the notifications                                         *)
(***************************************************************************)
\* the notifications the screen shows
Notifications ==
  {[visible |-> TRUE, message |-> MsgSuccess, type |-> "success"],
   [visible |-> TRUE, message |-> MsgFixErrors, type |-> "error"],
   [visible |-> TRUE, message |-> MsgCleared, type |-> "info"],
   [visible |-> TRUE, message |-> MsgFound, type |-> "info"],
   [visible |-> TRUE, message |-> MsgLoaded, type |-> "success"],
   [visible |-> TRUE, message |-> MsgNotFound, type |-> "info"],
   [visible |-> TRUE, message |-> MsgReset, type |-> "info"]}

\* C20: the screen has one notification slot: a step that shows a
\* notification puts its message and type in the slot, whatever the slot
\* held, and a notification shown over a visible one gets no timer of its
\* own; the only other change of the slot is the auto-hide, which keeps
\* message and type; and a visible slot is hidden in the end, however many
\* notifications are shown meanwhile.
C20_SingleSlotAutoHide ==
  /\ [][toast' # toast =>
           \/ /\ toast' \in Notifications
              /\ timer' = IF toast.visible THEN "inherited" ELSE "armed"
           \/ /\ ToastTimeout
              /\ toast' = [toast EXCEPT !.visible = FALSE]
              /\ timer' = "off"]_vars
  /\ [](toast.visible <=> timer # "off")
  /\ (toast.visible ~> ~toast.visible)

\* a notification has been shown while another one was visible
C20_Witness ==
  /\ toast.visible
  /\ timer = "inherited"
  /\ toast.message = MsgReset

====
